---- MODULE Spec2Model ----
(***************************************************************************)
(* Model of server/server.go of SaSSHimi: the tunnel of Run(): the         *)
(* tunnel-opening goroutine (openTunnel), the dispatcher (handleClients),  *)
(* the accept loop of Run, the exit callback (onExit) and, from the        *)
(* package common that server.go calls, the logical connections (Client),  *)
(* the transport reader/writer and the keepalive loop.                     *)
(*                                                                         *)
(* Every goroutine is a process with a program counter; one action is one  *)
(* step between two points where another goroutine can be scheduled.       *)
(* time.After is untimed: a pending timer may fire whenever its select is  *)
(* waiting (Go gives no bound on how long a runnable goroutine waits).     *)
(***************************************************************************)
EXTENDS Naturals, Sequences, FiniteSets

\* ---------------------------------------------------------------- bounds
\* Spec, the whole program: connections accepted, frames the peer sends, and
\* data and keepalive frames produced locally, in one run
MaxConns == 1
MaxIn == 1
MaxOut == 1
\* SpecRegistry, the program when no exit is requested and no data goes out
RegConns == 2
RegIn == 2
\* SpecQueue, the program under load: frames in each direction
QueueLoad == 11

\* capacity of InChannel and of OutChannel (make(chan *DataMessage, 10))
QueueCap == 10

\* remote addresses (conn.RemoteAddr().String()) a client can connect from
Ids == {"a", "b"}

VARIABLES
  proc,          \* the process: "running", "exited" (os.Exit) or "crashed" (panic / fatal error)
  ChannelOpen,   \* t.ChannelOpen
  Clients,       \* t.Clients: ClientId -> connection (0: no entry)
  ClientsLock,   \* t.ClientsLock: "free" or the goroutine holding it
  InChannel,     \* t.InChannel
  OutChannel,    \* t.OutChannel
  sshClient,     \* t.sshClient: "nil", "open", "closed"
  sshSession,    \* t.sshSession: "nil", "open", "closed"
  ln,            \* the listener: "open", "closed"
  tpc,           \* the goroutine of openTunnel
  dpc,           \* handleClients
  msg,           \* handleClients' msg
  client,        \* handleClients' client (0: none looked up)
  apc,           \* the accept loop of Run
  xpc,           \* onExit
  log,           \* what onExit did to the remote side, in order
  conn,          \* the Clients ever created, in the order of their accept
  peer,          \* the frames the peer sends in this run
  left           \* what the run may still do: connections, frames in, frames out

vars == <<proc, ChannelOpen, Clients, ClientsLock, InChannel, OutChannel,
          sshClient, sshSession, ln, tpc, dpc, msg, client, apc, xpc, log,
          conn, peer, left>>

\* ---------------------------------------------------------------- frames
Frame(id, ka, dead, close) ==
  [ClientId |-> id, KeepAlive |-> ka, DeadClient |-> dead, CloseClient |-> close]

DataFrame(id) == Frame(id, FALSE, FALSE, FALSE)
CloseRequest(id) == Frame(id, FALSE, FALSE, TRUE)
CloseAck(id) == Frame(id, FALSE, TRUE, FALSE)
KeepAliveFrame == Frame("a", TRUE, FALSE, FALSE)

\* what the peer can send: the four kinds, and a keepalive that also carries
\* an id in use and both close flags
PeerFrames ==
  {DataFrame(id) : id \in Ids} \cup {CloseRequest(id) : id \in Ids}
    \cup {CloseAck(id) : id \in Ids}
    \cup {KeepAliveFrame, Frame("a", TRUE, TRUE, TRUE)}

\* msg before the first receive
NoMsg == Frame("", FALSE, FALSE, FALSE)

\* ---------------------------------------------------------------- Client
\* common.NewClient; calls is the sequence of the calls the dispatcher and the
\* exit callback have made on the Client
NewClient(id) ==
  [id |-> id, st |-> "active", sock |-> "open", eof |-> "none", calls |-> <<>>]

\* Client.IsDead
IsDead(c) == c.st \in {"halfClosedLocal", "terminated"}

\* Client.Close
ClientClose(c) == [c EXCEPT !.sock = "closed", !.calls = Append(@, "Close")]

\* Client.Terminate
ClientTerminate(c) ==
  [c EXCEPT !.st = "terminated", !.sock = "closed", !.calls = Append(@, "Terminate")]

\* Client.NotifyEOF
ClientNotifyEOF(c, isError) ==
  [c EXCEPT !.eof = IF isError THEN "error" ELSE "eof",
            !.calls = Append(@, IF isError THEN "NotifyEOF(true)" ELSE "NotifyEOF(false)")]

\* ---------------------------------------------------------------- newTunnel
\* the state Run() builds before it starts its goroutines, for a run of at most
\* nc connections, ni frames of fs from the peer and no local frames beyond no
InitWith(nc, ni, no, fs) ==
  /\ proc = "running"
  /\ ChannelOpen = TRUE
  /\ Clients = [id \in Ids |-> 0]
  /\ ClientsLock = "free"
  /\ InChannel = <<>>
  /\ OutChannel = <<>>
  /\ sshClient = "nil"
  /\ sshSession = "nil"
  /\ ln = "open"
  /\ tpc = "dial"
  /\ dpc = "top"
  /\ msg = NoMsg
  /\ client = 0
  /\ apc = "top"
  /\ xpc = "idle"
  /\ log = <<>>
  /\ conn = <<>>
  /\ peer = fs
  /\ left = [conns |-> nc, in |-> ni, out |-> no]

Init == InitWith(MaxConns, MaxIn, MaxOut, PeerFrames)

\* ---------------------------------------------------------------- helpers
Closed(h) == IF h = "nil" THEN "nil" ELSE "closed"

\* the process ends (os.Exit of Logger.Fatal, or a panic): every goroutine
\* stops and the kernel closes the listener and the SSH connection
Halt(how) ==
  /\ proc' = how
  /\ ln' = "closed"
  /\ sshClient' = Closed(sshClient)
  /\ sshSession' = Closed(sshSession)

\* delete(t.Clients, id)
Delete(m, id) == [m EXCEPT ![id] = 0]

\* a blocking send on a buffered channel: possible only below capacity
CanSendOneMore(q) == Len(q) <= QueueCap

CanSend(q) == Len(q) < QueueCap

\* ---------------------------------------------------------------- openTunnel
\* ssh.Dial; on error openTunnel returns and the caller's Logger.Fatal exits
Dial ==
  /\ proc = "running"
  /\ tpc = "dial"
  /\ \/ /\ sshClient' = "open"
        /\ tpc' = "session"
        /\ UNCHANGED <<proc, ln, sshSession>>
     \/ /\ Halt("exited")
        /\ tpc' = "end"
  /\ UNCHANGED <<ChannelOpen, Clients, ClientsLock, InChannel, OutChannel,
                 dpc, msg, client, apc, xpc, log, conn, peer, left>>

\* uploadForwarder, NewSession, the two pipes, and the start of
\* ReadInputData and WriteOutputData
OpenSession ==
  /\ proc = "running"
  /\ tpc = "session"
  /\ \/ /\ sshSession' = "open"
        /\ tpc' = "run"
        /\ UNCHANGED <<proc, ln, sshClient>>
     \/ \* upload or pipe failure: the deferred closes run, then Logger.Fatal
        /\ Halt("exited")
        /\ tpc' = "end"
     \/ \* NewSession failure: the deferred t.sshSession.Close() runs on nil
        /\ Halt("crashed")
        /\ tpc' = "end"
  /\ UNCHANGED <<ChannelOpen, Clients, ClientsLock, InChannel, OutChannel,
                 dpc, msg, client, apc, xpc, log, conn, peer, left>>

\* t.sshSession.Run returns (the remote process ended, for whatever reason);
\* t.ChannelOpen = false, and the goroutine blocks in the send on NotifyClosure
RunReturns ==
  /\ proc = "running"
  /\ tpc = "run"
  /\ ChannelOpen' = FALSE
  /\ tpc' = "notify"
  /\ UNCHANGED <<proc, Clients, ClientsLock, InChannel, OutChannel, sshClient,
                 sshSession, ln, dpc, msg, client, apc, xpc, log, conn, peer, left>>

\* after the send: return errors.New("Remote process is dead"), the deferred
\* closes, and the caller's Logger.Fatal
TunnelReturn ==
  /\ proc = "running"
  /\ tpc = "ret"
  /\ Halt("exited")
  /\ tpc' = "end"
  /\ UNCHANGED <<ChannelOpen, Clients, ClientsLock, InChannel, OutChannel,
                 dpc, msg, client, apc, xpc, log, conn, peer, left>>

\* ---------------------------------------------------------------- transport
TransportUp == tpc = "run"

\* ReadInputData: one decoded frame goes to InChannel
ReadInputData ==
  /\ proc = "running"
  /\ TransportUp
  /\ left.in > 0
  /\ CanSend(InChannel)
  /\ \E f \in peer : InChannel' = Append(InChannel, f)
  /\ left' = [left EXCEPT !.in = @ - 1]
  /\ UNCHANGED <<proc, ChannelOpen, Clients, ClientsLock, OutChannel, sshClient,
                 sshSession, ln, tpc, dpc, msg, client, apc, xpc, log, conn, peer>>

\* WriteOutputData: one frame leaves OutChannel for the transport
WriteOutputData ==
  /\ proc = "running"
  /\ TransportUp
  /\ OutChannel # <<>>
  /\ OutChannel' = Tail(OutChannel)
  /\ UNCHANGED <<proc, ChannelOpen, Clients, ClientsLock, InChannel, sshClient,
                 sshSession, ln, tpc, dpc, msg, client, apc, xpc, log, conn, peer, left>>

\* KeepAlive: one tick; a full queue drops the tick
KeepAlive ==
  /\ proc = "running"
  /\ ChannelOpen
  /\ left.out > 0
  /\ left' = [left EXCEPT !.out = @ - 1]
  /\ OutChannel' = IF CanSend(OutChannel) THEN Append(OutChannel, KeepAliveFrame)
                   ELSE OutChannel
  /\ UNCHANGED <<proc, ChannelOpen, Clients, ClientsLock, InChannel, sshClient,
                 sshSession, ln, tpc, dpc, msg, client, apc, xpc, log, conn, peer>>

\* ---------------------------------------------------------------- handleClients
\* (mutant) the branch of a closeAck terminates first, then notifies
OnDeadClientTerminateFirst(c) == ClientNotifyEOF(ClientTerminate(c), FALSE)

\* the branch of a closeAck (DeadClient): NotifyEOF(false), then Terminate
OnDeadClient(c) == ClientTerminate(ClientNotifyEOF(c, FALSE))

\* the branch of a closeRequest (CloseClient): Close
OnCloseClient(c) == ClientClose(c)

\* the branch of a failed Write: Terminate, then NotifyEOF(true)
OnWriteError(c) == ClientNotifyEOF(ClientTerminate(c), TRUE)

\* (mutant) the branch of a failed Write also deletes the entry
ClientsAfterWriteErrorDeleting(m, id) == Delete(m, id)

\* the registry after the branch of a failed Write
ClientsAfterWriteError(m, id) == m

\* the registry after the branch of a closeAck or a closeRequest
ClientsAfterClose(m, id) == Delete(m, id)

\* where the loop goes next: for t.ChannelOpen
LoopHead == IF ChannelOpen THEN "recv" ELSE "done"

\* for t.ChannelOpen, on entry
DispTop ==
  /\ proc = "running"
  /\ dpc = "top"
  /\ dpc' = LoopHead
  /\ UNCHANGED <<proc, ChannelOpen, Clients, ClientsLock, InChannel, OutChannel,
                 sshClient, sshSession, ln, tpc, msg, client, apc, xpc, log,
                 conn, peer, left>>

\* (mutant) only a keepalive with no other flag is skipped
SkippedWhenPlain(f) == f.KeepAlive /\ ~f.DeadClient /\ ~f.CloseClient

\* whether a received frame is skipped before the lock
Skipped(f) == f.KeepAlive

\* msg := <-t.InChannel; if msg.KeepAlive { continue }; t.ClientsLock.Lock()
\* (only handleClients ever takes the lock, so Lock() never waits)
DispRecv ==
  /\ proc = "running"
  /\ dpc = "recv"
  /\ InChannel # <<>>
  /\ InChannel' = Tail(InChannel)
  /\ msg' = Head(InChannel)
  /\ IF Skipped(Head(InChannel))
       THEN /\ dpc' = LoopHead
            /\ UNCHANGED ClientsLock
       ELSE /\ ClientsLock' = "disp"
            /\ dpc' = "lookup"
  /\ UNCHANGED <<proc, ChannelOpen, Clients, OutChannel,
                 sshClient, sshSession, ln, tpc, client, apc, xpc, log,
                 conn, peer, left>>

\* (mutant) an iteration ends without releasing the lock
UnlockForgotten ==
  /\ UNCHANGED <<ClientsLock, msg>>
  /\ dpc' = LoopHead
  /\ client' = 0

\* the end of an iteration: t.ClientsLock.Unlock(), for t.ChannelOpen
Unlock ==
  /\ ClientsLock' = "free"
  /\ dpc' = LoopHead
  /\ client' = 0
  /\ UNCHANGED msg

\* client, prs := t.Clients[msg.ClientId]; prs == false: the warning
DispUnknown ==
  /\ proc = "running"
  /\ dpc = "lookup"
  /\ Clients[msg.ClientId] = 0
  /\ Unlock
  /\ UNCHANGED <<proc, ChannelOpen, Clients, InChannel, OutChannel,
                 sshClient, sshSession, ln, tpc, apc, xpc, log,
                 conn, peer, left>>

\* msg.DeadClient: NotifyEOF(false), Terminate, delete
DispDeadClient ==
  /\ proc = "running"
  /\ dpc = "lookup"
  /\ Clients[msg.ClientId] # 0
  /\ msg.DeadClient
  /\ conn' = [conn EXCEPT ![Clients[msg.ClientId]] = OnDeadClient(@)]
  /\ Clients' = ClientsAfterClose(Clients, msg.ClientId)
  /\ Unlock
  /\ UNCHANGED <<proc, ChannelOpen, InChannel, OutChannel,
                 sshClient, sshSession, ln, tpc, apc, xpc, log,
                 peer, left>>

\* msg.CloseClient: Close, delete
DispCloseClient ==
  /\ proc = "running"
  /\ dpc = "lookup"
  /\ Clients[msg.ClientId] # 0
  /\ ~msg.DeadClient
  /\ msg.CloseClient
  /\ conn' = [conn EXCEPT ![Clients[msg.ClientId]] = OnCloseClient(@)]
  /\ Clients' = ClientsAfterClose(Clients, msg.ClientId)
  /\ Unlock
  /\ UNCHANGED <<proc, ChannelOpen, InChannel, OutChannel,
                 sshClient, sshSession, ln, tpc, apc, xpc, log,
                 peer, left>>

\* (mutant) a data frame is written whatever the state of the Client
WritesToAny(c) == TRUE

\* whether a data frame for Client c is written to its socket
WritesTo(c) == ~IsDead(c)

\* a data frame for a Client that is not dead: client.Write is entered
DispData ==
  /\ proc = "running"
  /\ dpc = "lookup"
  /\ Clients[msg.ClientId] # 0
  /\ ~msg.DeadClient
  /\ ~msg.CloseClient
  /\ WritesTo(conn[Clients[msg.ClientId]])
  /\ client' = Clients[msg.ClientId]
  /\ dpc' = "write"
  /\ UNCHANGED <<proc, ChannelOpen, Clients, ClientsLock, InChannel, OutChannel,
                 sshClient, sshSession, ln, tpc, msg, apc, xpc, log,
                 conn, peer, left>>

\* a data frame for a dead Client: nothing
DispDataDead ==
  /\ proc = "running"
  /\ dpc = "lookup"
  /\ Clients[msg.ClientId] # 0
  /\ ~msg.DeadClient
  /\ ~msg.CloseClient
  /\ ~WritesTo(conn[Clients[msg.ClientId]])
  /\ Unlock
  /\ UNCHANGED <<proc, ChannelOpen, Clients, InChannel, OutChannel,
                 sshClient, sshSession, ln, tpc, apc, xpc, log,
                 conn, peer, left>>

\* client.Write returns nil
DispWriteOk ==
  /\ proc = "running"
  /\ dpc = "write"
  /\ conn[client].sock = "open"
  /\ Unlock
  /\ UNCHANGED <<proc, ChannelOpen, Clients, InChannel, OutChannel,
                 sshClient, sshSession, ln, tpc, apc, xpc, log,
                 conn, peer, left>>

\* client.Write returns an error (the socket is closed, or the peer reset it)
DispWriteError ==
  /\ proc = "running"
  /\ dpc = "write"
  /\ conn' = [conn EXCEPT ![client] = OnWriteError(@)]
  /\ Clients' = ClientsAfterWriteError(Clients, msg.ClientId)
  /\ Unlock
  /\ UNCHANGED <<proc, ChannelOpen, InChannel, OutChannel,
                 sshClient, sshSession, ln, tpc, apc, xpc, log,
                 peer, left>>

handleClients ==
  \/ DispTop
  \/ DispRecv
  \/ DispUnknown
  \/ DispDeadClient
  \/ DispCloseClient
  \/ DispData
  \/ DispDataDead
  \/ DispWriteOk
  \/ DispWriteError

\* ---------------------------------------------------------------- accept loop of Run
\* the kernel gives an accepted socket a remote address no socket still open
\* on this side has
AddrFree(id) == \A c \in DOMAIN conn : ~(conn[c].id = id /\ conn[c].sock = "open")

\* for tunnel.ChannelOpen
AcceptTop ==
  /\ proc = "running"
  /\ apc = "top"
  /\ apc' = IF ChannelOpen THEN "accept" ELSE "done"
  /\ UNCHANGED <<proc, ChannelOpen, Clients, ClientsLock, InChannel, OutChannel,
                 sshClient, sshSession, ln, tpc, dpc, msg, client, xpc, log,
                 conn, peer, left>>

\* conn, err := ln.Accept(); common.NewClient(conn.RemoteAddr().String(), ...)
AcceptConn ==
  /\ proc = "running"
  /\ apc = "accept"
  /\ ln = "open"
  /\ left.conns > 0
  /\ \E id \in Ids :
       /\ AddrFree(id)
       /\ conn' = Append(conn, NewClient(id))
  /\ left' = [left EXCEPT !.conns = @ - 1]
  /\ apc' = "insert"
  /\ UNCHANGED <<proc, ChannelOpen, Clients, ClientsLock, InChannel, OutChannel,
                 sshClient, sshSession, ln, tpc, dpc, msg, client, xpc, log,
                 peer>>

\* ln.Accept() on the closed listener: err != nil, Logger.Fatalf
AcceptError ==
  /\ proc = "running"
  /\ apc = "accept"
  /\ ln = "closed"
  /\ Halt("exited")
  /\ apc' = "done"
  /\ UNCHANGED <<ChannelOpen, Clients, ClientsLock, InChannel, OutChannel,
                 tpc, dpc, msg, client, xpc, log, conn, peer, left>>

\* the lock the accept loop holds when it writes the map: none
InsertLock == "free"

\* tunnel.Clients[client.Id] = client
AcceptInsert ==
  /\ proc = "running"
  /\ apc = "insert"
  /\ ClientsLock = InsertLock \/ InsertLock = "free"
  /\ Clients' = [Clients EXCEPT ![conn[Len(conn)].id] = Len(conn)]
  /\ apc' = "spawn"
  /\ UNCHANGED <<proc, ChannelOpen, ClientsLock, InChannel, OutChannel,
                 sshClient, sshSession, ln, tpc, dpc, msg, client, xpc, log,
                 conn, peer, left>>

\* the map write of the accept loop and the map read of the dispatcher at the
\* same time: the runtime's "fatal error: concurrent map read and map write"
MapRace ==
  /\ proc = "running"
  /\ apc = "insert"
  /\ dpc = "lookup"
  /\ Halt("crashed")
  /\ UNCHANGED <<ChannelOpen, Clients, ClientsLock, InChannel, OutChannel,
                 tpc, dpc, msg, client, apc, xpc, log, conn, peer, left>>

\* go client.ReadFromClientToChannel()
AcceptSpawn ==
  /\ proc = "running"
  /\ apc = "spawn"
  /\ apc' = "top"
  /\ UNCHANGED <<proc, ChannelOpen, Clients, ClientsLock, InChannel, OutChannel,
                 sshClient, sshSession, ln, tpc, dpc, msg, client, xpc, log,
                 conn, peer, left>>

AcceptLoop ==
  \/ AcceptTop
  \/ AcceptConn
  \/ AcceptError
  \/ AcceptInsert
  \/ MapRace
  \/ AcceptSpawn

\* ---------------------------------------------------------------- Client.ReadFromClientToChannel
\* (mutant) the read loop is started as soon as the Client is built, before the
\* insert
StartedBeforeInsert(c) == c \in DOMAIN conn

\* the accept loop is past its insert of Client c: it handles one connection at
\* a time, so c is a former one or the loop is beyond the map write
Inserted(c) == c < Len(conn) \/ (c = Len(conn) /\ apc # "insert")

\* the read loop of Client c runs once the accept loop's go statement is past
Started(c) == c < Len(conn) \/ (c = Len(conn) /\ apc \notin {"insert", "spawn"})

\* a read returns bytes: one data frame to OutChannel
ReadLoopData(c) ==
  /\ proc = "running"
  /\ Started(c)
  /\ conn[c].st = "active"
  /\ conn[c].sock = "open"
  /\ left.out > 0
  /\ CanSend(OutChannel)
  /\ OutChannel' = Append(OutChannel, DataFrame(conn[c].id))
  /\ left' = [left EXCEPT !.out = @ - 1]
  /\ UNCHANGED <<proc, ChannelOpen, Clients, ClientsLock, InChannel,
                 sshClient, sshSession, ln, tpc, dpc, msg, client, apc, xpc, log,
                 conn, peer>>

\* a read returns EOF or an error: one closeRequest, or one closeAck when the
\* socket was closed by Close() for the peer's closeRequest
ReadLoopEOF(c) ==
  /\ proc = "running"
  /\ Started(c)
  /\ conn[c].st = "active"
  /\ CanSend(OutChannel)
  /\ OutChannel' = Append(OutChannel,
        IF conn[c].sock = "open" THEN CloseRequest(conn[c].id) ELSE CloseAck(conn[c].id))
  /\ conn' = [conn EXCEPT ![c].st = "halfClosedLocal"]
  /\ UNCHANGED <<proc, ChannelOpen, Clients, ClientsLock, InChannel,
                 sshClient, sshSession, ln, tpc, dpc, msg, client, apc, xpc, log,
                 peer, left>>

\* ---------------------------------------------------------------- onExit
Registered(c) == \E id \in Ids : Clients[id] = c

\* ChannelForwarder.Terminate: every registered Client is terminated
TunnelTerminate(cs) ==
  [c \in DOMAIN cs |-> IF Registered(c) THEN ClientTerminate(cs[c]) ELSE cs[c]]

\* the exit callback runs: TermiosRestoreStdin, tunnel.Terminate()
ExitStart ==
  /\ proc = "running"
  /\ xpc = "idle"
  /\ conn' = TunnelTerminate(conn)
  /\ xpc' = "sel1"
  /\ UNCHANGED <<proc, ChannelOpen, Clients, ClientsLock, InChannel, OutChannel,
                 sshClient, sshSession, ln, tpc, dpc, msg, client, apc, log,
                 peer, left>>

\* first select, case <-tunnel.NotifyClosure: the rendezvous with openTunnel's send
ExitNotified1 ==
  /\ proc = "running"
  /\ xpc = "sel1"
  /\ tpc = "notify"
  /\ tpc' = "ret"
  /\ xpc' = "sel2"
  /\ UNCHANGED <<proc, ChannelOpen, Clients, ClientsLock, InChannel, OutChannel,
                 sshClient, sshSession, ln, dpc, msg, client, apc, log,
                 conn, peer, left>>

\* first select, case <-time.After: sshSession.Signal(ssh.SIGTERM), which
\* dereferences a nil session
ExitTimeout1 ==
  /\ proc = "running"
  /\ xpc = "sel1"
  /\ \/ /\ sshSession # "nil"
        /\ log' = Append(log, "SIGTERM")
        /\ xpc' = "sel2"
        /\ UNCHANGED <<proc, ln, sshClient, sshSession>>
     \/ /\ sshSession = "nil"
        /\ Halt("crashed")
        /\ UNCHANGED <<log, xpc>>
  /\ UNCHANGED <<ChannelOpen, Clients, ClientsLock, InChannel, OutChannel,
                 tpc, dpc, msg, client, apc, conn, peer, left>>

\* second select, case <-tunnel.NotifyClosure
ExitNotified2 ==
  /\ proc = "running"
  /\ xpc = "sel2"
  /\ tpc = "notify"
  /\ tpc' = "ret"
  /\ xpc' = "close"
  /\ UNCHANGED <<proc, ChannelOpen, Clients, ClientsLock, InChannel, OutChannel,
                 sshClient, sshSession, ln, dpc, msg, client, apc, log,
                 conn, peer, left>>

\* (mutant) the second timeout closes the session and says nothing of what may
\* be left on the remote host
ForceCloseSilent(l) == l \o <<"ERROR", "FORCECLOSE">>

\* what the second timeout does to the remote side: the two Error lines, then
\* sshSession.Close()
ForceClose(l) == l \o <<"ERROR", "RESIDUAL", "FORCECLOSE">>

\* (mutant) the second wait has no timer: only the notification ends it
ExitTimeout2Never ==
  /\ xpc = "sel2"
  /\ FALSE
  /\ UNCHANGED vars

\* second select, case <-time.After
ExitTimeout2 ==
  /\ proc = "running"
  /\ xpc = "sel2"
  /\ log' = ForceClose(log)
  /\ sshSession' = "closed"
  /\ xpc' = "close"
  /\ UNCHANGED <<proc, ChannelOpen, Clients, ClientsLock, InChannel, OutChannel,
                 sshClient, ln, tpc, dpc, msg, client, apc,
                 conn, peer, left>>

\* tunnel.sshClient.Close(); ln.Close()
ExitClose ==
  /\ proc = "running"
  /\ xpc = "close"
  /\ sshClient' = "closed"
  /\ ln' = "closed"
  /\ xpc' = "done"
  /\ UNCHANGED <<proc, ChannelOpen, Clients, ClientsLock, InChannel, OutChannel,
                 sshSession, tpc, dpc, msg, client, apc, log,
                 conn, peer, left>>

onExit ==
  \/ ExitStart
  \/ ExitNotified1
  \/ ExitTimeout1
  \/ ExitNotified2
  \/ ExitTimeout2
  \/ ExitClose

\* ---------------------------------------------------------------- the program
Next ==
  \/ Dial
  \/ OpenSession
  \/ RunReturns
  \/ TunnelReturn
  \/ ReadInputData
  \/ WriteOutputData
  \/ KeepAlive
  \/ DispTop
  \/ DispRecv
  \/ DispUnknown
  \/ DispDeadClient
  \/ DispCloseClient
  \/ DispData
  \/ DispDataDead
  \/ DispWriteOk
  \/ DispWriteError
  \/ AcceptTop
  \/ AcceptConn
  \/ AcceptError
  \/ AcceptInsert
  \/ MapRace
  \/ AcceptSpawn
  \/ \E c \in DOMAIN conn : ReadLoopData(c)
  \/ \E c \in DOMAIN conn : ReadLoopEOF(c)
  \/ ExitStart
  \/ ExitNotified1
  \/ ExitTimeout1
  \/ ExitNotified2
  \/ ExitTimeout2
  \/ ExitClose

Spec == Init /\ [][Next]_vars

\* the program when no exit is requested and nothing but close frames goes out
InitRegistry == InitWith(RegConns, RegIn, 0, PeerFrames)

NextRegistry ==
  \/ Dial
  \/ OpenSession
  \/ RunReturns
  \/ ReadInputData
  \/ WriteOutputData
  \/ DispTop
  \/ DispRecv
  \/ DispUnknown
  \/ DispDeadClient
  \/ DispCloseClient
  \/ DispData
  \/ DispDataDead
  \/ DispWriteOk
  \/ DispWriteError
  \/ AcceptTop
  \/ AcceptConn
  \/ AcceptInsert
  \/ MapRace
  \/ AcceptSpawn
  \/ \E c \in DOMAIN conn : ReadLoopEOF(c)

SpecRegistry == InitRegistry /\ [][NextRegistry]_vars

\* the program under load: two clients send data, the peer sends keepalives
InitQueue == InitWith(RegConns, QueueLoad, QueueLoad, {KeepAliveFrame})

NextQueue ==
  \/ Dial
  \/ OpenSession
  \/ ReadInputData
  \/ WriteOutputData
  \/ DispTop
  \/ DispRecv
  \/ AcceptTop
  \/ AcceptConn
  \/ AcceptInsert
  \/ AcceptSpawn
  \/ \E c \in DOMAIN conn : ReadLoopData(c)

SpecQueue == InitQueue /\ [][NextQueue]_vars

\* the scheduling of the exit callback: a goroutine that can take a step takes
\* it, and a pending timer fires
SpecLive == Spec /\ WF_vars(ExitNotified1 \/ ExitTimeout1 \/ ExitNotified2 \/ ExitTimeout2 \/ ExitClose)

\* ================================================================ claims

RemovedOnCloseRequest(id) ==
  \E c \in DOMAIN conn :
    /\ conn[c].id = id
    /\ conn[c].sock = "closed"
    /\ conn[c].st # "terminated"

\* C2: once the dispatcher has removed the entry of a connectionId for a
\* closeRequest, every later frame for that id (the closeAck included) is dropped
\* as an unknown client: it is dispatched to no Client (no write, close,
\* terminate or notifyEOF) and removes nothing a second time.
C2_NoDispatchAfterRemoval ==
  [][(dpc = "lookup" /\ dpc' # "lookup" /\ RemovedOnCloseRequest(msg.ClientId)) =>
       /\ Clients[msg.ClientId] = 0
       /\ UNCHANGED <<Clients, conn>>]_vars

Has(l, e) == \E i \in DOMAIN l : l[i] = e

C4_EscalatesOnlyWhenUnacknowledged ==
  [][/\ ExitNotified1 => log' = <<>>
     /\ (xpc \in {"sel2", "close", "done"} /\ ~Has(log, "SIGTERM")) => log' = <<>>
     /\ ExitNotified2 => (log' = log /\ sshSession' = sshSession)
     /\ (xpc \in {"close", "done"} /\ ~Has(log, "FORCECLOSE")) => ~Has(log', "FORCECLOSE")]_vars

\* the exit callback is in its shutdown sequence on an established session
ShutdownOfOpenTunnel == xpc \notin {"idle", "done"} /\ sshSession # "nil"

\* the SSH client and the listener are both closed
TunnelClosed == sshClient = "closed" /\ ln = "closed"

C6_KeepAliveSkippedBeforeLock ==
  [][(dpc = "recv" /\ InChannel # <<>> /\ Head(InChannel).KeepAlive
        /\ InChannel' = Tail(InChannel)) =>
       /\ ClientsLock = "free"
       /\ UNCHANGED <<Clients, conn, ClientsLock, OutChannel, client>>
       /\ dpc' \in {"recv", "done"}]_vars

\* C6 witness: a keepalive that names a registered, live Client and carries
\* both close flags has been processed
C6_Witness ==
  /\ msg = Frame("a", TRUE, TRUE, TRUE)
  /\ dpc = "recv"
  /\ Clients["a"] # 0
  /\ conn[Clients["a"]].st = "active"
  /\ conn[Clients["a"]].sock = "open"

\* C7: every access to the registry map is made under the registry lock: the
\* accept loop holds it at its insert, the dispatcher at its lookup and delete,
\* and the two are never at their map accesses at the same time.
C7_RegistryAccessUnderLock ==
  /\ (dpc = "lookup") => (ClientsLock = "disp")
  /\ (apc = "insert") => (ClientsLock = "accept")
  /\ ~(apc = "insert" /\ dpc = "lookup")

\* C8: the dispatcher never holds the registry lock while it is in the socket
\* write of a Client.
C8_NoLockAcrossWrite == ~(dpc = "write" /\ ClientsLock = "disp")

\* C9: a frame that is not a keepalive and whose id has no entry is dropped: the
\* step leaves the registry, every Client and both queues as they are, releases
\* the lock, the process goes on and the dispatcher is back at the head of its
\* loop, at the next receive while the channel is open.
C9_UnknownClientDropped ==
  [][(dpc = "lookup" /\ dpc' # "lookup" /\ Clients[msg.ClientId] = 0) =>
       /\ UNCHANGED <<Clients, conn, InChannel, OutChannel, proc>>
       /\ ClientsLock' = "free"
       /\ dpc' = (IF ChannelOpen THEN "recv" ELSE "done")]_vars

\* C9 witness: a closeAck was handled when no Client of its id was ever
\* registered, and the dispatcher waits for the next frame
C9_Witness ==
  /\ msg = CloseAck("b")
  /\ dpc = "recv"
  /\ ClientsLock = "free"
  /\ conn # <<>>
  /\ \A c \in DOMAIN conn : conn[c].id = "a" /\ conn[c].st = "active"
\* C10: the inbound and the outbound queue never hold more than QueueCap
\* frames; every chunk a read loop takes from its socket is appended, as a data
\* frame of its connection, to the one OutChannel, and only when a slot is free;
\* a full OutChannel changes only by the writer taking its head, and no frame
\* leaves a queue except at its head
C10_QueuesBoundedAndShared ==
  [][ /\ Len(InChannel') <= QueueCap
      /\ Len(OutChannel') <= QueueCap
      /\ left'.out # left.out =>
            /\ Len(OutChannel) < QueueCap
            /\ \E c \in DOMAIN conn :
                  /\ Started(c)
                  /\ OutChannel' = Append(OutChannel, DataFrame(conn[c].id))
      /\ left'.in # left.in =>
            /\ Len(InChannel) < QueueCap
            /\ \E f \in peer : InChannel' = Append(InChannel, f)
      /\ (OutChannel' # OutChannel /\ left'.out = left.out) =>
            OutChannel' = Tail(OutChannel)
      /\ (InChannel' # InChannel /\ left'.in = left.in) =>
            InChannel' = Tail(InChannel)
    ]_vars

\* both queues are full, the outbound one with frames of two connections whose
\* read loops both have more to send, and the peer has more to send
C10_Witness ==
  /\ Len(OutChannel) = QueueCap
  /\ Len(InChannel) = QueueCap
  /\ left.out > 0
  /\ left.in > 0
  /\ \E c, d \in DOMAIN conn :
        /\ conn[c].id # conn[d].id
        /\ Started(c) /\ conn[c].st = "active" /\ conn[c].sock = "open"
        /\ Started(d) /\ conn[d].st = "active" /\ conn[d].sock = "open"
        /\ \E i, j \in DOMAIN OutChannel :
              /\ OutChannel[i] = DataFrame(conn[c].id)
              /\ OutChannel[j] = DataFrame(conn[d].id)

\* the tunnel-opening goroutine has not yet established the transport nor
\* started ReadInputData and WriteOutputData
Connecting == tpc \in {"dial", "session"}

\* C11: while the tunnel is still connecting, no client connection has been
\* accepted, none is registered, and OutChannel holds no frame of a client.
C11_AcceptsOnlyOnceOpen ==
  Connecting =>
    /\ conn = <<>>
    /\ \A id \in Ids : Clients[id] = 0
    /\ \A i \in DOMAIN OutChannel : OutChannel[i].KeepAlive

\* C12: a failure of any step before the tunnel is open ends openTunnel with an
\* error that the caller reports as fatal, once: the process exits through
\* Logger.Fatal, and the transport loops were never started.
C12_StartupFailureReportedFatal ==
  [][(Connecting /\ tpc' = "end") =>
       /\ proc' = "exited"
       /\ ~TransportUp']_vars

\* the scheduling of the dispatcher: handleClients takes every step it can take
SpecDispatch == Spec /\ WF_vars(handleClients)

\* Client c has no entry any more (or the process, and its registry, is gone)
Destroyed(c) == proc # "running" \/ ~Registered(c)

\* a Write to Client c failed and its entry is in the registry
WriteFailed(c) == c \in DOMAIN conn /\ Registered(c) /\ conn[c].eof = "error"

\* C13 (its case of a failed write): under fair scheduling of the dispatcher, a
\* connection whose local write failed eventually has no entry in the registry.
C13_WriteFailedEventuallyDestroyed ==
  \A c \in 1..MaxConns : WriteFailed(c) ~> Destroyed(c)

\* C14: a Client whose read loop runs has been inserted into the registry, and
\* it is still registered unless its socket has since been closed; whenever a
\* frame of a client is enqueued on OutChannel, its connectionId is that of a
\* started Client that was inserted.
C14_RegisteredBeforeReadLoop ==
  [][/\ \A c \in DOMAIN conn :
          Started(c) => (Inserted(c) /\ (Registered(c) \/ conn[c].sock = "closed"))
     /\ (Len(OutChannel') > Len(OutChannel) /\ ~OutChannel'[Len(OutChannel')].KeepAlive) =>
          \E c \in DOMAIN conn :
            /\ conn[c].id = OutChannel'[Len(OutChannel')].ClientId
            /\ Started(c)
            /\ Inserted(c)]_vars

\* C14 witness: a frame of a registered Client is queued behind the closeAck of
\* one that had an entry and has none any more
C14_Witness ==
  \E c, d \in DOMAIN conn :
    /\ Started(c) /\ ~Registered(c) /\ conn[c].st = "halfClosedLocal"
    /\ Started(d) /\ Registered(d) /\ conn[d].id # conn[c].id
    /\ OutChannel = <<CloseAck(conn[c].id), CloseRequest(conn[d].id)>>

\* C15: when the accept loop inserts a new Client, the registry has no entry
\* under its connectionId, not even one of a half-closed or terminated Client.
C15_InsertNeverReplaces ==
  [][(apc = "insert" /\ apc' = "spawn") => Clients[conn[Len(conn)].id] = 0]_vars

\* the dispatcher holds a data frame, under the lock, before its lookup
DataFrameLookedUp == dpc = "lookup" /\ ~msg.DeadClient /\ ~msg.CloseClient

\* C16: the dispatcher enters a socket write only for a data frame whose id is
\* registered to a Client that is not dead, and writes to that Client; a data
\* frame for a registered Client that is dead ends the iteration with no write
\* and leaves the registry and every Client as they are.
C16_WritesOnlyToLiveRegistered ==
  [][/\ (dpc # "write" /\ dpc' = "write") =>
          /\ DataFrameLookedUp
          /\ Clients[msg.ClientId] # 0
          /\ ~IsDead(conn[Clients[msg.ClientId]])
          /\ client' = Clients[msg.ClientId]
     /\ (DataFrameLookedUp /\ dpc' # "lookup" /\ Clients[msg.ClientId] # 0
           /\ IsDead(conn[Clients[msg.ClientId]])) =>
          /\ dpc' \in {"recv", "done"}
          /\ UNCHANGED <<Clients, conn, OutChannel>>]_vars

\* C16 witness: the dispatcher is at its lookup with a data frame for a
\* registered Client whose read loop has reached EOF
C16_Witness ==
  /\ DataFrameLookedUp
  /\ Clients[msg.ClientId] # 0
  /\ conn[Clients[msg.ClientId]].st = "halfClosedLocal"
  /\ conn[Clients[msg.ClientId]].sock = "open"

\* the dispatcher ends an iteration on a frame of this kind for a registered id
HandlesCloseAck ==
  dpc = "lookup" /\ dpc' # "lookup" /\ Clients[msg.ClientId] # 0 /\ msg.DeadClient

HandlesCloseRequest ==
  /\ dpc = "lookup" /\ dpc' # "lookup" /\ Clients[msg.ClientId] # 0
  /\ ~msg.DeadClient /\ msg.CloseClient

\* C17: on a closeAck for a registered Client the dispatcher, holding the lock
\* from before the lookup until it releases it in the same step, calls
\* NotifyEOF(false), then Terminate, on that Client and removes the entry; on a
\* closeRequest it calls Close, and nothing else, and removes the entry.
C17_CloseBranchesCallsInOrder ==
  [][/\ HandlesCloseAck =>
          /\ ClientsLock = "disp" /\ ClientsLock' = "free"
          /\ conn'[Clients[msg.ClientId]].calls =
                conn[Clients[msg.ClientId]].calls \o <<"NotifyEOF(false)", "Terminate">>
          /\ conn'[Clients[msg.ClientId]].st = "terminated"
          /\ Clients' = [Clients EXCEPT ![msg.ClientId] = 0]
     /\ HandlesCloseRequest =>
          /\ ClientsLock = "disp" /\ ClientsLock' = "free"
          /\ conn'[Clients[msg.ClientId]].calls =
                conn[Clients[msg.ClientId]].calls \o <<"Close">>
          /\ conn'[Clients[msg.ClientId]].st = conn[Clients[msg.ClientId]].st
          /\ conn'[Clients[msg.ClientId]].sock = "closed"
          /\ Clients' = [Clients EXCEPT ![msg.ClientId] = 0]]_vars

\* C17 witness: one Client was closed for a closeRequest and another was
\* notified and terminated for a closeAck, and neither has an entry any more
C17_Witness ==
  \E c, d \in DOMAIN conn :
    /\ conn[c].calls = <<"Close">> /\ ~Registered(c)
    /\ conn[d].calls = <<"NotifyEOF(false)", "Terminate">> /\ ~Registered(d)
    /\ conn[d].st = "terminated"
    /\ \A id \in Ids : Clients[id] = 0

\* the scheduling of the tunnel-opening goroutine, of the exit callback and of
\* the accept loop: each takes every step it can take, and Accept on a closed
\* listener returns; whether a client connects is up to the client
SpecTunnel ==
  /\ SpecLive
  /\ WF_vars(TunnelReturn)
  /\ WF_vars(AcceptTop \/ AcceptInsert \/ AcceptSpawn \/ AcceptError)

\* sshSession.Run has returned and ChannelOpen is cleared
RemoteExited == tpc \in {"notify", "ret", "end"} /\ ~ChannelOpen

\* Run has left its accept loop and returned to its caller
RunReturned == apc = "done"

\* C18: once the transport run has ended, openTunnel eventually gets past its
\* notification and returns its error, so that the process ends (or, at the
\* least, Run returns), whether or not the exit callback is there to receive the
\* notification.
C18_RemoteExitEndsProcess == RemoteExited ~> (proc # "running" \/ RunReturned)

\* C19: whenever the exit callback signals the session, closes the session or
\* closes the SSH client, openTunnel has already set that handle.
C19_ShutdownTouchesOnlySetHandles ==
  [][/\ ExitTimeout1 => sshSession # "nil"
     /\ ExitTimeout2 => sshSession # "nil"
     /\ ExitClose => sshClient # "nil"]_vars

====
